---- MODULE Spec2Model ----
(***************************************************************************)
(* The Python binding layer of cdshealpix (src/src/lib.rs): the batch      *)
(* wrappers that run a per-element closure over zipped numpy arrays with   *)
(* Zip::par_apply, and the coverage queries that flatten a BMOC into three *)
(* parallel vectors with get_cells / get_flat_cells.                       *)
(*                                                                         *)
(* The healpix crate is a collaborator of the binding layer.  Its pure     *)
(* per-cell functions are drawn from small sets of sample tables, its BMOC *)
(* results from the valid BMOCs over a small sky.                          *)
(***************************************************************************)
EXTENDS Integers, Sequences, FiniteSets, TLC

\* ------------------------------------------------------------------ bounds
MaxN == 2
NumWorkers == 2
MaxDelta == 1
MaxDepthMax == 1
MaxCells == 2
MaxVertices == 4

Workers == 1..NumWorkers

\* --------------------------------------------------------- 64-bit integers
\* A u64 is four 16-bit limbs, most significant first; an i64 is a sign and a
\* magnitude (itself four limbs), so that the full 64-bit width is kept.
Limb == 2^16

U64(a, b, c, d) == <<a, b, c, d>>

I64(neg, mag) == [neg |-> neg, mag |-> mag]

\* 2^64 - v, limb by limb (complement and add one, carrying upwards).
TwosComplement(v) ==
    LET s4 == (Limb - 1 - v[4]) + 1
        s3 == (Limb - 1 - v[3]) + (s4 \div Limb)
        s2 == (Limb - 1 - v[2]) + (s3 \div Limb)
        s1 == (Limb - 1 - v[1]) + (s2 \div Limb)
    IN  U64(s1 % Limb, s2 % Limb, s3 % Limb, s4 % Limb)

\* `val as i64`: the same 64 bits read as two's complement; bit 63 is the sign.
as_i64(val) ==
    IF val[1] >= Limb \div 2
    THEN I64(TRUE, TwosComplement(val))
    ELSE I64(FALSE, val)

MinusOne == I64(TRUE, U64(0, 0, 0, 1))

\* Option<T>
None == <<>>
Some(v) == <<v>>

to_i64(val) ==
    IF val = None THEN MinusOne ELSE as_i64(val[1])

to_ref_i64_none_is_zero(val) ==
    IF val = None THEN I64(FALSE, U64(0, 0, 0, 0)) ELSE as_i64(val[1])

to_ref_i64(val) ==
    IF val = None THEN MinusOne ELSE as_i64(val[1])

\* ------------------------------------------------------- compass directions
MainWind == {"S", "SE", "E", "SW", "C", "NE", "W", "NW", "N"}
Cardinal == {"S", "E", "N", "W"}
Ordinal == {"SE", "NE", "NW", "SW"}

WindIndex(w) ==
    CASE w = "S" -> 0 [] w = "SE" -> 1 [] w = "E" -> 2 [] w = "SW" -> 3
      [] w = "C" -> 4 [] w = "NE" -> 5 [] w = "W" -> 6 [] w = "NW" -> 7
      [] w = "N" -> 8

\* MainWindMap::get
MapGet(map, w) == IF w \in DOMAIN map THEN Some(map[w]) ELSE None

\* ------------------------------------------------- the healpix collaborator
\* Depths the per-element wrappers are called with: the coarsest and finest.
Depths == {0, 29}

\* Sample hash values of a depth (all below 12 * 4^depth): first, middle, last.
HashSeq(d) ==
    IF d = 0
    THEN <<U64(0, 0, 0, 0), U64(0, 0, 0, 5), U64(0, 0, 0, 11)>>
    ELSE <<U64(0, 0, 0, 0), U64(1, 2, 3, 4), U64(12287, 65535, 65535, 65535)>>

\* The cells callers pass in.
Cells(d) == {HashSeq(d)[1], HashSeq(d)[3]}

\* f64 coordinates are opaque tokens: the binding layer only moves them.
Coords == 0..1

\* layer.hash: (lon, lat) -> hash
HashTables(d) ==
    {[c \in Coords \X Coords |-> HashSeq(d)[((2 * c[1] + c[2] + k) % 3) + 1]] :
        k \in 0..1}

\* layer.center: hash -> (lon, lat)
CenterTables(d) ==
    {[c \in Cells(d) |-> IF (c = HashSeq(d)[1]) = b THEN <<20, 21>> ELSE <<22, 23>>] :
        b \in BOOLEAN}

\* healpix::nested::vertices: hash -> [(lon, lat); 4] in the order S, E, N, W
VertexTables(d) ==
    {[c \in Cells(d) |->
        IF (c = HashSeq(d)[1]) = b
        THEN <<<<30, 31>>, <<32, 33>>, <<34, 35>>, <<36, 37>>>>
        ELSE <<<<40, 41>>, <<42, 43>>, <<44, 45>>, <<46, 47>>>>] :
        b \in BOOLEAN}

\* A neighbour hash of direction w: distinct per direction, valid at depth d.
NeighbourHash(d, w) ==
    IF d = 0
    THEN U64(0, 0, 0, WindIndex(w))
    ELSE U64(12287, 65535, 65535, 65535 - WindIndex(w))

\* An interior cell has all its neighbours; a cell at a corner of a base cell
\* lacks some of them.
FullMap(d) == [w \in MainWind |-> NeighbourHash(d, w)]

PartialMap(d) == [w \in MainWind \ {"S", "NE", "W"} |-> NeighbourHash(d, w)]

\* healpix::nested::neighbours(depth, hash, true): hash -> MainWindMap
NeighbourTables(d) ==
    {[c \in Cells(d) |-> IF (c = HashSeq(d)[1]) = b THEN FullMap(d) ELSE PartialMap(d)] :
        b \in BOOLEAN}

\* Edge cell number k (from 0) of ordinal edge number o, distinct per (o, k).
EdgeHash(d, o, k) ==
    IF d = 0 THEN U64(0, 0, o, k) ELSE U64(12287, 65535, 65535 - o, 65535 - k)

EdgeSeq(d, o, delta) == [k \in 1..(2^delta) |-> EdgeHash(d, o, k - 1)]

EdgesOf(d, delta) ==
    [e \in Ordinal |->
        CASE e = "SE" -> EdgeSeq(d, 0, delta) [] e = "NE" -> EdgeSeq(d, 1, delta)
          [] e = "NW" -> EdgeSeq(d, 2, delta) [] e = "SW" -> EdgeSeq(d, 3, delta)]

CornerHash(d, c) ==
    CASE c = "S" -> NeighbourHash(d, "S") [] c = "E" -> NeighbourHash(d, "E")
      [] c = "N" -> NeighbourHash(d, "N") [] c = "W" -> NeighbourHash(d, "W")

\* ExternalEdge: four optional corners, four edges of 2^delta cells.
FullEdges(d, delta) ==
    [corners |-> [c \in Cardinal |-> CornerHash(d, c)], edges |-> EdgesOf(d, delta)]

PartialEdges(d, delta) ==
    [corners |-> [c \in {"E", "N"} |-> CornerHash(d, c)], edges |-> EdgesOf(d, delta)]

get_corner(ext, c) == IF c \in DOMAIN ext.corners THEN Some(ext.corners[c]) ELSE None

get_edge(ext, e) == ext.edges[e]

\* layer.external_edge_struct(hash, delta_depth): hash -> ExternalEdge
EdgeTables(d, delta) ==
    {[c \in Cells(d) |->
        IF (c = HashSeq(d)[1]) = b THEN FullEdges(d, delta) ELSE PartialEdges(d, delta)] :
        b \in BOOLEAN}

\* -------------------------------------------------------------------- state
VARIABLES
    pc,           \* "idle", "par_apply", "fill", "returned" or "panicked"
    op,           \* the #[pyfn] that was called
    depth,        \* its depth argument
    delta_depth,  \* its delta_depth argument
    layer,        \* the collaborator's per-element function used by the call
    arr,          \* the caller's numpy arrays, by parameter name
    entry,        \* the caller's arrays as they were when the call was made
    pending,      \* par_apply: the indices no worker has been given yet
    cur,          \* par_apply: the index each worker is on (0: none)
    writers,      \* par_apply: per index, the workers that wrote its outputs
    wlog,         \* par_apply: per index, the <<array, offset>> row writes made
    flat,         \* coverage query: the flat argument
    bmoc,         \* coverage query: the BMOC the collaborator returned
    vertices,     \* polygon_search: the stacked (lon, lat) pairs
    len,          \* get_cells / get_flat_cells: the capacity asked for
    iter,         \* get_cells / get_flat_cells: the cells still to come
    vecs,         \* get_cells / get_flat_cells: the vectors ipix, depth, fully_covered
    ret           \* coverage query: the returned (ipix, depth, fully_covered)

vars == <<pc, op, depth, delta_depth, layer, arr, entry, pending, cur, writers,
          wlog, flat, bmoc, vertices, len, iter, vecs, ret>>

batch_vars == <<pending, cur, writers, wlog>>

cover_vars == <<flat, bmoc, vertices, len, iter, vecs, ret>>

\* What a caller's freshly allocated output array holds before the call.
Stale ==
    [f64 |-> 99, u64 |-> U64(57005, 48879, 57005, 48879),
     i64 |-> I64(TRUE, U64(0, 0, 0, 7))]

NoArrays ==
    [ipix |-> <<>>, lon |-> <<>>, lat |-> <<>>, neighbours |-> <<>>,
     corners |-> <<>>, edges |-> <<>>]

\* An array of n elements v; a row of `width` elements v, indexed from 0.
Filled(n, v) == [k \in 1..n |-> v]

Row(width, v) == [k \in 0..(width - 1) |-> v]

SeqsUpTo(S, n) == UNION {[1..k -> S] : k \in 0..n}

NoVec == [elems |-> <<>>, cap |-> 0, reallocs |-> 0]

NoVecs == [ipix |-> NoVec, depth |-> NoVec, fully_covered |-> NoVec]

NoBmoc == [depth_max |-> 0, entries |-> <<>>]

Init ==
    /\ pc = "idle"
    /\ op = "none"
    /\ depth = 0
    /\ delta_depth = 0
    /\ layer = <<>>
    /\ arr = NoArrays
    /\ entry = NoArrays
    /\ pending = {}
    /\ cur = [w \in Workers |-> 0]
    /\ writers = <<>>
    /\ wlog = <<>>
    /\ flat = FALSE
    /\ bmoc = NoBmoc
    /\ vertices = <<>>
    /\ len = 0
    /\ iter = <<>>
    /\ vecs = NoVecs
    /\ ret = <<>>

\* ------------------------------------------------------- the batch wrappers
\* Zip::from(p1).and(p2)...: every producer must have the dimension of the
\* first, or `and` panics.
same_dimension(dims) == \A k \in 1..Len(dims) : dims[k] = dims[1]

\* The call up to par_apply: the arrays are viewed, the layer is fetched and the
\* Zip is built; the index range is then handed to the workers.
ZipAndApply(o, d, dd, tbl, a, dims) ==
    /\ pc = "idle"
    /\ op' = o
    /\ depth' = d
    /\ delta_depth' = dd
    /\ layer' = tbl
    /\ arr' = a
    /\ entry' = a
    /\ cur' = [w \in Workers |-> 0]
    /\ IF same_dimension(dims)
       THEN /\ pc' = "par_apply"
            /\ pending' = 1..dims[1]
            /\ writers' = [i \in 1..dims[1] |-> {}]
            /\ wlog' = [i \in 1..dims[1] |-> <<>>]
       ELSE /\ pc' = "panicked"
            /\ pending' = {}
            /\ writers' = <<>>
            /\ wlog' = <<>>
    /\ UNCHANGED cover_vars

lonlat_to_healpix(d, lon, lat, n_ipix, tbl) ==
    LET a == [NoArrays EXCEPT !.lon = lon, !.lat = lat,
                              !.ipix = Filled(n_ipix, Stale.u64)]
    IN  ZipAndApply("lonlat_to_healpix", d, 0, tbl, a,
                    <<Len(a.ipix), Len(a.lon), Len(a.lat)>>)

healpix_to_lonlat(d, ipix, n_lon, n_lat, tbl) ==
    LET a == [NoArrays EXCEPT !.ipix = ipix, !.lon = Filled(n_lon, Stale.f64),
                              !.lat = Filled(n_lat, Stale.f64)]
    IN  ZipAndApply("healpix_to_lonlat", d, 0, tbl, a,
                    <<Len(a.ipix), Len(a.lon), Len(a.lat)>>)

vertices_call(d, ipix, n_lon, n_lat, tbl) ==
    LET a == [NoArrays EXCEPT !.ipix = ipix,
                              !.lon = Filled(n_lon, Row(4, Stale.f64)),
                              !.lat = Filled(n_lat, Row(4, Stale.f64))]
    IN  ZipAndApply("vertices", d, 0, tbl, a,
                    <<Len(a.lon), Len(a.lat), Len(a.ipix)>>)

neighbours(d, ipix, n_rows, tbl) ==
    LET a == [NoArrays EXCEPT !.ipix = ipix,
                              !.neighbours = Filled(n_rows, Row(9, Stale.i64))]
    IN  ZipAndApply("neighbours", d, 0, tbl, a,
                    <<Len(a.neighbours), Len(a.ipix)>>)

\* The caller sizes an edges row for 4 * 2^delta_depth cells, or larger.
external_edges_cells(d, dd, ipix, n_corners, n_edges, pad, tbl) ==
    LET a == [NoArrays EXCEPT !.ipix = ipix,
                              !.corners = Filled(n_corners, Row(4, Stale.i64)),
                              !.edges = Filled(n_edges, Row(4 * (2^dd) + pad, Stale.u64))]
    IN  ZipAndApply("external_edges_cells", d, dd, tbl, a,
                    <<Len(a.corners), Len(a.edges), Len(a.ipix)>>)

\* ---- the closures.  A row closure is the list of its indexed writes
\* <<array, offset, value>>, in the order the code makes them.
vertices_writes(v) ==
    << <<"lon", 0, v[1][1]>>, <<"lat", 0, v[1][2]>>,
       <<"lon", 1, v[2][1]>>, <<"lat", 1, v[2][2]>>,
       <<"lon", 2, v[3][1]>>, <<"lat", 2, v[3][2]>>,
       <<"lon", 3, v[4][1]>>, <<"lat", 3, v[4][2]>> >>

neighbours_writes_swapped(p, map) ==
    << <<"neighbours", 0, to_ref_i64(MapGet(map, "S"))>>,
       <<"neighbours", 1, to_ref_i64(MapGet(map, "SE"))>>,
       <<"neighbours", 2, to_ref_i64(MapGet(map, "SW"))>>,
       <<"neighbours", 3, to_ref_i64(MapGet(map, "E"))>>,
       <<"neighbours", 4, as_i64(p)>>,
       <<"neighbours", 5, to_ref_i64(MapGet(map, "NE"))>>,
       <<"neighbours", 6, to_ref_i64(MapGet(map, "W"))>>,
       <<"neighbours", 7, to_ref_i64(MapGet(map, "NW"))>>,
       <<"neighbours", 8, to_ref_i64(MapGet(map, "N"))>> >>

neighbours_writes(p, map) ==
    << <<"neighbours", 0, to_ref_i64(MapGet(map, "S"))>>,
       <<"neighbours", 1, to_ref_i64(MapGet(map, "SE"))>>,
       <<"neighbours", 2, to_ref_i64(MapGet(map, "E"))>>,
       <<"neighbours", 3, to_ref_i64(MapGet(map, "SW"))>>,
       <<"neighbours", 4, as_i64(p)>>,
       <<"neighbours", 5, to_ref_i64(MapGet(map, "NE"))>>,
       <<"neighbours", 6, to_ref_i64(MapGet(map, "W"))>>,
       <<"neighbours", 7, to_ref_i64(MapGet(map, "NW"))>>,
       <<"neighbours", 8, to_ref_i64(MapGet(map, "N"))>> >>

\* One `for i in 0..num_cells_per_edge { e[offset + i] = edge[i]; }` loop.
edge_loop(edge, offset, num_cells_per_edge) ==
    [k \in 1..num_cells_per_edge |-> <<"edges", offset + (k - 1), edge[k]>>]

external_edges_writes_no_offset(ext, dd) ==
    LET num_cells_per_edge == 2^dd
    IN  << <<"corners", 0, to_i64(get_corner(ext, "S"))>>,
           <<"corners", 1, to_i64(get_corner(ext, "E"))>>,
           <<"corners", 2, to_i64(get_corner(ext, "N"))>>,
           <<"corners", 3, to_i64(get_corner(ext, "W"))>> >>
        \o edge_loop(get_edge(ext, "SE"), 0, num_cells_per_edge)
        \o edge_loop(get_edge(ext, "NE"), num_cells_per_edge, num_cells_per_edge)
        \o edge_loop(get_edge(ext, "NW"), num_cells_per_edge, num_cells_per_edge)
        \o edge_loop(get_edge(ext, "SW"), 3 * num_cells_per_edge, num_cells_per_edge)

external_edges_writes(ext, dd) ==
    LET num_cells_per_edge == 2^dd
    IN  << <<"corners", 0, to_i64(get_corner(ext, "S"))>>,
           <<"corners", 1, to_i64(get_corner(ext, "E"))>>,
           <<"corners", 2, to_i64(get_corner(ext, "N"))>>,
           <<"corners", 3, to_i64(get_corner(ext, "W"))>> >>
        \o edge_loop(get_edge(ext, "SE"), 0, num_cells_per_edge)
        \o edge_loop(get_edge(ext, "NE"), num_cells_per_edge, num_cells_per_edge)
        \o edge_loop(get_edge(ext, "NW"), 2 * num_cells_per_edge, num_cells_per_edge)
        \o edge_loop(get_edge(ext, "SW"), 3 * num_cells_per_edge, num_cells_per_edge)

\* The indexed writes the closure of operation o makes for element i.
RowWrites(o, a, i) ==
    CASE o = "vertices" -> vertices_writes(layer[a.ipix[i]])
      [] o = "neighbours" -> neighbours_writes(a.ipix[i], layer[a.ipix[i]])
      [] o = "external_edges_cells" ->
            external_edges_writes(layer[a.ipix[i]], delta_depth)
      [] OTHER -> <<>>

\* The row views of element i after the writes ws, made one after the other.
RECURSIVE ApplyWrites(_, _, _)
ApplyWrites(a, i, ws) ==
    IF ws = <<>>
    THEN a
    ELSE LET w == Head(ws)
         IN  ApplyWrites([a EXCEPT ![w[1]][i][w[2]] = w[3]], i, Tail(ws))

lonlat_to_healpix_closure_first(a, i) ==
    [a EXCEPT !.ipix[i] = layer[<<a.lon[1], a.lat[1]>>]]

lonlat_to_healpix_closure(a, i) ==
    [a EXCEPT !.ipix[i] = layer[<<a.lon[i], a.lat[i]>>]]

healpix_to_lonlat_closure(a, i) ==
    LET lb == layer[a.ipix[i]]
    IN  [a EXCEPT !.lon[i] = lb[1], !.lat[i] = lb[2]]

\* The closure par_apply runs on element i of the zipped arrays.
Closure(o, a, i) ==
    CASE o = "lonlat_to_healpix" -> lonlat_to_healpix_closure(a, i)
      [] o = "healpix_to_lonlat" -> healpix_to_lonlat_closure(a, i)
      [] OTHER -> ApplyWrites(a, i, RowWrites(o, a, i))

\* ---- par_apply: the zipped index range is split among the workers, each
\* index going to exactly one of them.
split_off_keeps(p, i) == p

split_off(p, i) == p \ {i}

Take(w) ==
    /\ pc = "par_apply"
    /\ cur[w] = 0
    /\ \E i \in pending :
          /\ cur' = [cur EXCEPT ![w] = i]
          /\ pending' = split_off(pending, i)
    /\ UNCHANGED <<pc, op, depth, delta_depth, layer, arr, entry, writers, wlog>>
    /\ UNCHANGED cover_vars

Run(w, o) ==
    /\ pc = "par_apply"
    /\ op = o
    /\ cur[w] # 0
    /\ arr' = Closure(o, arr, cur[w])
    /\ writers' = [writers EXCEPT ![cur[w]] = @ \cup {w}]
    /\ wlog' = [wlog EXCEPT ![cur[w]] =
                  @ \o [k \in 1..Len(RowWrites(o, arr, cur[w])) |->
                          <<RowWrites(o, arr, cur[w])[k][1],
                            RowWrites(o, arr, cur[w])[k][2]>>]]
    /\ cur' = [cur EXCEPT ![w] = 0]
    /\ UNCHANGED <<pc, op, depth, delta_depth, layer, entry, pending>>
    /\ UNCHANGED cover_vars

run_lonlat_to_healpix(w) == Run(w, "lonlat_to_healpix")

run_healpix_to_lonlat(w) == Run(w, "healpix_to_lonlat")

run_vertices(w) == Run(w, "vertices")

run_neighbours(w) == Run(w, "neighbours")

run_external_edges_cells(w) == Run(w, "external_edges_cells")

\* par_apply returns when every index has been processed; the wrapper returns Ok(()).
Join ==
    /\ pc = "par_apply"
    /\ pending = {}
    /\ \A w \in Workers : cur[w] = 0
    /\ pc' = "returned"
    /\ UNCHANGED <<op, depth, delta_depth, layer, arr, entry>>
    /\ UNCHANGED batch_vars
    /\ UNCHANGED cover_vars

\* ------------------------------------------------------ the coverage queries
\* A BMOC cell: its hash at its own depth and the flag saying it is fully inside
\* the queried region.  Hashes here are plain naturals: nothing is cast.
\* The sky is kept small: the first two base cells, and at each finer depth the
\* first four cells (the children of cell 0 of the depth above).
SkyHashes(l) == IF l = 0 THEN 0..1 ELSE 0..3

CellsAtDepth(l) ==
    {[hash |-> h, depth |-> l, is_full |-> f] : h \in SkyHashes(l), f \in BOOLEAN}

\* The cells a BMOC of depth depth_max is made of.
CellSet(depth_max) == UNION {CellsAtDepth(l) : l \in 0..depth_max}

\* The number of depth_max cells a cell covers, and the first of them.
Span(c, depth_max) == 4^(depth_max - c.depth)

First(c, depth_max) == c.hash * Span(c, depth_max)

\* A BMOC's entries are in increasing order and do not overlap.
ValidEntries(s, depth_max) ==
    \A j \in 1..(Len(s) - 1) :
        First(s[j], depth_max) + Span(s[j], depth_max) <= First(s[j + 1], depth_max)

\* What a coverage function of the collaborator may return at depth depth_max.
BMOCs(depth_max) ==
    {[depth_max |-> depth_max, entries |-> s] :
        s \in {t \in SeqsUpTo(CellSet(depth_max), MaxCells) : ValidEntries(t, depth_max)}}

\* BMOC::into_iter: the entries, one cell each, in order.
into_iter(b) == b.entries

RECURSIVE SumSpans(_, _)
SumSpans(s, depth_max) ==
    IF s = <<>> THEN 0 ELSE Span(Head(s), depth_max) + SumSpans(Tail(s), depth_max)

\* BMOC::deep_size: the number of depth_max cells of the BMOC.
deep_size(b) == SumSpans(b.entries, b.depth_max)

\* The depth_max cells of one entry, each with the entry's flag.
Expand(c, depth_max) ==
    [k \in 1..Span(c, depth_max) |->
        [hash |-> First(c, depth_max) + (k - 1), depth |-> depth_max,
         is_full |-> c.is_full]]

RECURSIVE FlatCells(_, _)
FlatCells(s, depth_max) ==
    IF s = <<>>
    THEN <<>>
    ELSE Expand(Head(s), depth_max) \o FlatCells(Tail(s), depth_max)

\* BMOC::flat_iter_cell: every entry expanded to depth_max, in order.
flat_iter_cell(b) == FlatCells(b.entries, b.depth_max)

\* ---- Vec<T>: its elements, its capacity, and how often its buffer was
\* reallocated.
with_capacity(n) == [elems |-> <<>>, cap |-> n, reallocs |-> 0]

\* A push into a full vector grows the buffer (amortised doubling).
push(v, x) ==
    IF Len(v.elems) = v.cap
    THEN [elems |-> Append(v.elems, x),
          cap |-> IF 2 * v.cap > v.cap + 1 THEN 2 * v.cap ELSE v.cap + 1,
          reallocs |-> v.reallocs + 1]
    ELSE [v EXCEPT !.elems = Append(@, x)]

shrink_to_fit(v) ==
    IF v.cap > Len(v.elems)
    THEN [v EXCEPT !.cap = Len(v.elems), !.reallocs = @ + 1]
    ELSE v

\* ---- get_cells
get_cells_len(b) == Len(b.entries)

get_cells_iter_flat(b) == flat_iter_cell(b)

get_cells_iter(b) == into_iter(b)

get_cells_push_full_only(v, c) ==
    [ipix |-> push(v.ipix, c.hash),
     depth |-> push(v.depth, c.depth),
     fully_covered |-> IF c.is_full THEN push(v.fully_covered, c.is_full)
                       ELSE v.fully_covered]

get_cells_push(v, c) ==
    [ipix |-> push(v.ipix, c.hash),
     depth |-> push(v.depth, c.depth),
     fully_covered |-> push(v.fully_covered, c.is_full)]

\* ---- get_flat_cells
get_flat_cells_len_entries(b) == Len(b.entries)

get_flat_cells_len(b) == deep_size(b)

get_flat_cells_iter_entries(b) == into_iter(b)

get_flat_cells_iter(b) == flat_iter_cell(b)

get_flat_cells_push(v, c) ==
    [ipix |-> push(v.ipix, c.hash),
     depth |-> push(v.depth, c.depth),
     fully_covered |-> push(v.fully_covered, c.is_full)]

\* A coverage query up to the fill loop of the flattener it calls: the
\* collaborator returns the BMOC b, the capacity is computed and the three
\* vectors are allocated with it.
Cover(o, d, dd, fl, b, a, vs) ==
    /\ pc = "idle"
    /\ pc' = "fill"
    /\ op' = o
    /\ depth' = d
    /\ delta_depth' = dd
    /\ arr' = a
    /\ entry' = a
    /\ vertices' = vs
    /\ flat' = fl
    /\ bmoc' = b
    /\ len' = IF fl THEN get_flat_cells_len(b) ELSE get_cells_len(b)
    /\ iter' = IF fl THEN get_flat_cells_iter(b) ELSE get_cells_iter(b)
    /\ vecs' = [ipix |-> with_capacity(len'), depth |-> with_capacity(len'),
                fully_covered |-> with_capacity(len')]
    /\ ret' = <<>>
    /\ UNCHANGED layer
    /\ UNCHANGED batch_vars

\* The region (lon, lat, radius; a, b, pa) only reaches the collaborator.
cone_search(d, dd, fl, b) == Cover("cone_search", d, dd, fl, b, NoArrays, <<>>)

elliptical_cone_search(d, dd, fl, b) ==
    Cover("elliptical_cone_search", d, dd, fl, b, NoArrays, <<>>)

\* lon.iter().zip(lat.iter()): pairs up to the end of the shorter array.
zip(lon, lat) ==
    [k \in 1..(IF Len(lon) <= Len(lat) THEN Len(lon) ELSE Len(lat)) |->
        <<lon[k], lat[k]>>]

\* A caller's coordinate array of n elements, distinct by position.
LonArray(n) == [k \in 1..n |-> k]

LatArray(n) == [k \in 1..n |-> 100 + k]

\* polygon_coverage is given the stacked vertices.  The collaborator covers
\* polygons: with fewer than three vertices the call is taken to fail in it.
polygon_search(d, lon, lat, fl, b) ==
    LET a == [NoArrays EXCEPT !.lon = lon, !.lat = lat]
    IN  IF Len(zip(lon, lat)) >= 3
        THEN Cover("polygon_search", d, 0, fl, b, a, zip(lon, lat))
        ELSE /\ pc = "idle"
             /\ pc' = "panicked"
             /\ op' = "polygon_search"
             /\ depth' = d
             /\ arr' = a
             /\ entry' = a
             /\ vertices' = zip(lon, lat)
             /\ flat' = fl
             /\ UNCHANGED <<delta_depth, layer, bmoc, len, iter, vecs, ret>>
             /\ UNCHANGED batch_vars

\* One iteration of `for c in bmoc.into_iter()`.
get_cells_loop ==
    /\ pc = "fill"
    /\ ~flat
    /\ iter # <<>>
    /\ vecs' = get_cells_push(vecs, Head(iter))
    /\ iter' = Tail(iter)
    /\ UNCHANGED <<pc, op, depth, delta_depth, layer, arr, entry>>
    /\ UNCHANGED <<flat, bmoc, vertices, len, ret>>
    /\ UNCHANGED batch_vars

\* One iteration of `for c in bmoc.flat_iter_cell()`.
get_flat_cells_loop ==
    /\ pc = "fill"
    /\ flat
    /\ iter # <<>>
    /\ vecs' = get_flat_cells_push(vecs, Head(iter))
    /\ iter' = Tail(iter)
    /\ UNCHANGED <<pc, op, depth, delta_depth, layer, arr, entry>>
    /\ UNCHANGED <<flat, bmoc, vertices, len, ret>>
    /\ UNCHANGED batch_vars

\* After the loop: shrink_to_fit, into arrays, and the query returns the tuple.
FlattenReturn ==
    /\ pc = "fill"
    /\ iter = <<>>
    /\ vecs' = [ipix |-> shrink_to_fit(vecs.ipix),
                depth |-> shrink_to_fit(vecs.depth),
                fully_covered |-> shrink_to_fit(vecs.fully_covered)]
    /\ ret' = <<vecs'.ipix.elems, vecs'.depth.elems, vecs'.fully_covered.elems>>
    /\ pc' = "returned"
    /\ UNCHANGED <<op, depth, delta_depth, layer, arr, entry>>
    /\ UNCHANGED <<flat, bmoc, vertices, len, iter>>
    /\ UNCHANGED batch_vars

get_cells_return == ~flat /\ FlattenReturn

get_flat_cells_return == flat /\ FlattenReturn

\* ---------------------------------------------------------- specification
Idle == pc = "idle"

Next ==
    \/ Idle /\ \E d \in Depths :
          \E lon \in SeqsUpTo(Coords, MaxN), lat \in SeqsUpTo(Coords, MaxN),
             n \in 0..MaxN, tbl \in HashTables(d) :
             lonlat_to_healpix(d, lon, lat, n, tbl)
    \/ Idle /\ \E d \in Depths :
          \E ipix \in SeqsUpTo(Cells(d), MaxN), n_lon \in 0..MaxN,
             n_lat \in 0..MaxN, tbl \in CenterTables(d) :
             healpix_to_lonlat(d, ipix, n_lon, n_lat, tbl)
    \/ Idle /\ \E d \in Depths :
          \E ipix \in SeqsUpTo(Cells(d), MaxN), n_lon \in 0..MaxN,
             n_lat \in 0..MaxN, tbl \in VertexTables(d) :
             vertices_call(d, ipix, n_lon, n_lat, tbl)
    \/ Idle /\ \E d \in Depths :
          \E ipix \in SeqsUpTo(Cells(d), MaxN), n \in 0..MaxN,
             tbl \in NeighbourTables(d) :
             neighbours(d, ipix, n, tbl)
    \/ Idle /\ \E d \in Depths, dd \in 0..MaxDelta :
          /\ d + dd <= 29
          /\ \E ipix \in SeqsUpTo(Cells(d), MaxN), n_corners \in 0..MaxN,
                n_edges \in 0..MaxN, pad \in 0..1, tbl \in EdgeTables(d, dd) :
                external_edges_cells(d, dd, ipix, n_corners, n_edges, pad, tbl)
    \/ \E w \in Workers : Take(w)
    \/ \E w \in Workers : run_lonlat_to_healpix(w)
    \/ \E w \in Workers : run_healpix_to_lonlat(w)
    \/ \E w \in Workers : run_vertices(w)
    \/ \E w \in Workers : run_neighbours(w)
    \/ \E w \in Workers : run_external_edges_cells(w)
    \/ Join
    \/ Idle /\ \E d \in 0..MaxDepthMax, dd \in 0..MaxDelta, fl \in BOOLEAN :
          \E b \in BMOCs(d) : cone_search(d, dd, fl, b)
    \/ Idle /\ \E d \in 0..MaxDepthMax, dd \in 0..MaxDelta, fl \in BOOLEAN :
          \E b \in BMOCs(d) : elliptical_cone_search(d, dd, fl, b)
    \/ Idle /\ \E d \in 0..MaxDepthMax, n \in 0..MaxVertices, m \in 0..MaxVertices,
          fl \in BOOLEAN :
          \E b \in BMOCs(d) : polygon_search(d, LonArray(n), LatArray(m), fl, b)
    \/ get_cells_loop
    \/ get_flat_cells_loop
    \/ get_cells_return
    \/ get_flat_cells_return

Spec == Init /\ [][Next]_vars

\* ------------------------------------------------------------- properties
BatchOps ==
    {"lonlat_to_healpix", "healpix_to_lonlat", "vertices", "neighbours",
     "external_edges_cells"}

CoverOps == {"cone_search", "elliptical_cone_search", "polygon_search"}

\* The number of elements of the running batch call.
N == Len(entry.ipix)

\* Element i has been processed by a worker.
Processed(i) == writers[i] # {}

\* The closure applied to the elements 1, 2, ..., n in that order.
RECURSIVE SequentialApply(_, _, _)
SequentialApply(o, a, n) ==
    IF n = 0 THEN a ELSE Closure(o, SequentialApply(o, a, n - 1), n)

\* C1: when a batch operation returns, every output element is the per-element
\* function of the input element at the same index, and the arrays are exactly
\* those a sequential left-to-right evaluation produces, whatever order the
\* workers took the indices in.
C1_ParallelEqualsSequential ==
    (pc = "returned" /\ op \in BatchOps) =>
        /\ arr = SequentialApply(op, entry, N)
        /\ op = "lonlat_to_healpix" =>
              \A i \in 1..N : arr.ipix[i] = layer[<<entry.lon[i], entry.lat[i]>>]
        /\ op = "healpix_to_lonlat" =>
              \A i \in 1..N : <<arr.lon[i], arr.lat[i]>> = layer[entry.ipix[i]]
        /\ op = "vertices" =>
              \A i \in 1..N : \A k \in 0..3 :
                 <<arr.lon[i][k], arr.lat[i][k]>> = layer[entry.ipix[i]][k + 1]

\* A two-element hash batch has returned, its elements processed by different
\* workers and hashed to different cells.
C1_Witness ==
    /\ pc = "returned"
    /\ op = "lonlat_to_healpix"
    /\ N = 2
    /\ writers[1] # writers[2]
    /\ arr.ipix[1] # arr.ipix[2]

\* The arrays an operation only reads, and element i of those it writes.
InputsOf(o, a) == IF o = "lonlat_to_healpix" THEN <<a.lon, a.lat>> ELSE <<a.ipix>>

OutputsOf(o, a, i) ==
    CASE o = "lonlat_to_healpix" -> <<a.ipix[i]>>
      [] o = "healpix_to_lonlat" -> <<a.lon[i], a.lat[i]>>
      [] o = "vertices" -> <<a.lon[i], a.lat[i]>>
      [] o = "neighbours" -> <<a.neighbours[i]>>
      [] o = "external_edges_cells" -> <<a.corners[i], a.edges[i]>>

\* C2: during a batch operation no two workers are on the same index or have
\* written the same output index, an output element no worker has processed
\* still holds what the caller put there, and the input arrays hold what they
\* held when the call was made.
C2_DisjointWritesInputsUntouched ==
    (pc \in {"par_apply", "returned"} /\ op \in BatchOps) =>
        /\ \A i \in 1..N : Cardinality(writers[i]) <= 1
        /\ \A w1 \in Workers : \A w2 \in Workers \ {w1} :
              cur[w1] # 0 => cur[w1] # cur[w2]
        /\ \A w \in Workers : cur[w] # 0 => ~Processed(cur[w])
        /\ \A i \in 1..N : ~Processed(i) => OutputsOf(op, arr, i) = OutputsOf(op, entry, i)
        /\ InputsOf(op, arr) = InputsOf(op, entry)

\* One worker has written its row while another worker is still on another index.
C2_Witness ==
    /\ pc = "par_apply"
    /\ op = "neighbours"
    /\ \E i \in 1..N : \E w \in Workers :
          /\ Processed(i)
          /\ cur[w] # 0
          /\ w \notin writers[i]
          /\ arr.neighbours[i] # entry.neighbours[i]

\* The documented layouts.
NeighbourLayout == <<"S", "SE", "E", "SW", "C", "NE", "W", "NW", "N">>

CornerLayout == <<"S", "E", "N", "W">>

EdgeLayout == <<"SE", "NE", "NW", "SW">>

\* The offsets of array `name` written for element i, in order.
WrittenOffsets(i, name) ==
    LET hits == {k \in 1..Len(wlog[i]) : wlog[i][k][1] = name}
    IN  [k \in hits |-> wlog[i][k][2]]

\* Every offset of `range` is written exactly once for element i, and no other.
WrittenExactlyOnce(i, name, range) ==
    LET offs == WrittenOffsets(i, name)
    IN  /\ \A k \in DOMAIN offs : offs[k] \in range
        /\ \A off \in range : Cardinality({k \in DOMAIN offs : offs[k] = off}) = 1

\* C3: the row neighbours writes for a cell p has slot 4 equal to p (not the
\* absent sentinel) and slots 0,1,2,3,5,6,7,8 holding the map's entries for
\* S, SE, E, SW, NE, W, NW, N; all nine slots are written.
C3_NeighbourRowLayout ==
    (pc \in {"par_apply", "returned"} /\ op = "neighbours") =>
        \A i \in 1..N : Processed(i) =>
            LET p == entry.ipix[i]
                map == layer[p]
                row == arr.neighbours[i]
            IN  /\ row[4] = I64(FALSE, p)
                /\ row[4] # MinusOne
                /\ \A k \in {0, 1, 2, 3, 5, 6, 7, 8} :
                      row[k] = IF NeighbourLayout[k + 1] \in DOMAIN map
                               THEN I64(FALSE, map[NeighbourLayout[k + 1]])
                               ELSE MinusOne
                /\ WrittenExactlyOnce(i, "neighbours", 0..8)

\* Two rows have been written, one for a cell with all its neighbours and one
\* for a cell that lacks some.
C3_Witness ==
    /\ pc = "returned"
    /\ op = "neighbours"
    /\ N = 2
    /\ \A k \in 0..8 : arr.neighbours[1][k] # MinusOne
    /\ arr.neighbours[2][0] = MinusOne
    /\ arr.neighbours[2][4] = I64(FALSE, entry.ipix[2])
    /\ arr.neighbours[2][8] # MinusOne

\* C4: in the directional slots of neighbours and the corner slots of
\* external_edges_cells a slot is negative exactly when the neighbour or corner
\* is absent, and is then -1; a present index v is written as the non-negative
\* value v.
C4_NegativeIffAbsent ==
    /\ (pc \in {"par_apply", "returned"} /\ op = "neighbours") =>
          \A i \in 1..N : Processed(i) =>
              \A k \in {0, 1, 2, 3, 5, 6, 7, 8} :
                 LET map == layer[entry.ipix[i]]
                     w == NeighbourLayout[k + 1]
                     slot == arr.neighbours[i][k]
                 IN  /\ slot.neg <=> w \notin DOMAIN map
                     /\ slot.neg => slot = MinusOne
                     /\ w \in DOMAIN map => slot.mag = map[w]
    /\ (pc \in {"par_apply", "returned"} /\ op = "external_edges_cells") =>
          \A i \in 1..N : Processed(i) =>
              \A k \in 0..3 :
                 LET ext == layer[entry.ipix[i]]
                     c == CornerLayout[k + 1]
                     slot == arr.corners[i][k]
                 IN  /\ slot.neg <=> c \notin DOMAIN ext.corners
                     /\ slot.neg => slot = MinusOne
                     /\ c \in DOMAIN ext.corners => slot.mag = ext.corners[c]

\* At the finest depth a row holds both an absent neighbour and a present one
\* whose hash is among the largest valid ones.
C4_Witness ==
    /\ pc = "returned"
    /\ op = "neighbours"
    /\ depth = 29
    /\ \E i \in 1..N :
          /\ arr.neighbours[i][0] = MinusOne
          /\ ~arr.neighbours[i][8].neg
          /\ arr.neighbours[i][8].mag[1] = 12287

\* C7: external_edges_cells writes the corner row as [S, E, N, W] (absent: -1)
\* and the edge row as four blocks of 2^delta_depth entries, SE, NE, NW, SW in
\* that order, entry k of a block being entry k of that edge; every offset
\* below 4 * 2^delta_depth is written exactly once and none beyond.
C7_ExternalEdgesLayout ==
    (pc \in {"par_apply", "returned"} /\ op = "external_edges_cells") =>
        \A i \in 1..N : Processed(i) =>
            LET ext == layer[entry.ipix[i]]
                n == 2^delta_depth
            IN  /\ \A k \in 0..3 :
                      arr.corners[i][k] =
                         IF CornerLayout[k + 1] \in DOMAIN ext.corners
                         THEN I64(FALSE, ext.corners[CornerLayout[k + 1]])
                         ELSE MinusOne
                /\ \A b \in 0..3 : \A k \in 0..(n - 1) :
                      arr.edges[i][b * n + k] = ext.edges[EdgeLayout[b + 1]][k + 1]
                /\ WrittenExactlyOnce(i, "edges", 0..(4 * n - 1))
                /\ WrittenExactlyOnce(i, "corners", 0..3)
                /\ \A off \in DOMAIN arr.edges[i] :
                      off >= 4 * n => arr.edges[i][off] = entry.edges[i][off]

\* A row of 2 cells per edge, in an array with room to spare, has been written
\* for a cell that lacks its S corner.
C7_Witness ==
    /\ pc = "returned"
    /\ op = "external_edges_cells"
    /\ delta_depth = 1
    /\ \E i \in 1..N :
          /\ arr.corners[i][0] = MinusOne
          /\ arr.corners[i][1] # MinusOne
          /\ 8 \in DOMAIN arr.edges[i]
          /\ arr.edges[i][7] # Stale.u64

\* C8: an operation that returns was given arrays of equal lengths.
C8_NoResultFromMismatchedLengths ==
    pc = "returned" =>
        /\ op \in BatchOps =>
              \A name \in DOMAIN entry :
                 entry[name] # <<>> => Len(entry[name]) = Len(entry.ipix)
        /\ op = "polygon_search" => Len(entry.lon) = Len(entry.lat)

\* C5: get_cells returns one entry per BMOC cell, in the BMOC's order:
\* entry i is (cell[i].hash, cell[i].depth, cell[i].is_full).
C5_CellsAsReturned ==
    (pc = "returned" /\ op \in CoverOps /\ ~flat) =>
        /\ \A a \in 1..3 : Len(ret[a]) = Len(bmoc.entries)
        /\ \A i \in 1..Len(bmoc.entries) :
              /\ ret[1][i] = bmoc.entries[i].hash
              /\ ret[2][i] = bmoc.entries[i].depth
              /\ ret[3][i] = bmoc.entries[i].is_full

\* Two cells of different depths and flags were returned as they came.
C5_Witness ==
    /\ pc = "returned"
    /\ op = "cone_search"
    /\ ~flat
    /\ Len(ret[1]) = 2
    /\ ret[2][1] # ret[2][2]
    /\ ret[3][1] # ret[3][2]
    /\ ret[1][1] # ret[1][2]

\* The number of depth_max entries cell j of the BMOC stands for, and the number
\* the cells before it stand for.
FlatCount(j) == 4^(bmoc.depth_max - bmoc.entries[j].depth)

RECURSIVE FlatOffset(_)
FlatOffset(j) == IF j = 1 THEN 0 ELSE FlatOffset(j - 1) + FlatCount(j - 1)

\* C6: get_flat_cells returns, for every cell of level L <= depth_max D, exactly
\* 4^(D - L) consecutive entries (one when L = D), all with the cell's own flag
\* and all inside the cell; the length is the sum of these counts.
C6_FlatExpansion ==
    (pc = "returned" /\ op \in CoverOps /\ flat) =>
        LET m == Len(bmoc.entries)
            total == IF m = 0 THEN 0 ELSE FlatOffset(m) + FlatCount(m)
        IN  /\ \A a \in 1..3 : Len(ret[a]) = total
            /\ \A j \in 1..m : \A k \in 1..FlatCount(j) :
                  /\ ret[3][FlatOffset(j) + k] = bmoc.entries[j].is_full
                  /\ ret[1][FlatOffset(j) + k] \div FlatCount(j) = bmoc.entries[j].hash
                  /\ bmoc.entries[j].depth = bmoc.depth_max => FlatCount(j) = 1

\* A full cell at depth_max and a partial cell above depth_max were expanded
\* into 1 + 4 entries.
C6_Witness ==
    /\ pc = "returned"
    /\ op = "polygon_search"
    /\ flat
    /\ Len(bmoc.entries) = 2
    /\ bmoc.entries[1].depth = bmoc.depth_max
    /\ bmoc.entries[1].is_full
    /\ bmoc.entries[2].depth < bmoc.depth_max
    /\ ~bmoc.entries[2].is_full
    /\ Len(ret[1]) = 5
    /\ ret[3] = <<TRUE, FALSE, FALSE, FALSE, FALSE>>

\* The number of cells the flattener's loop iterates over.
LoopTotal == IF flat THEN Len(flat_iter_cell(bmoc)) ELSE Len(into_iter(bmoc))

\* C9: in both flattener modes the three vectors have the same length after
\* every iteration of the fill loop (the number of iterations made) and at
\* return.
C9_ParallelVectorsEqualLength ==
    (pc \in {"fill", "returned"} /\ op \in CoverOps) =>
        /\ Len(vecs.ipix.elems) = LoopTotal - Len(iter)
        /\ Len(vecs.depth.elems) = LoopTotal - Len(iter)
        /\ Len(vecs.fully_covered.elems) = LoopTotal - Len(iter)
        /\ pc = "returned" =>
              /\ Len(ret[1]) = Len(ret[2])
              /\ Len(ret[2]) = Len(ret[3])

\* The loop of get_cells is between its first and its second iteration, on a
\* cell that is not full.
C9_Witness ==
    /\ pc = "fill"
    /\ ~flat
    /\ Len(vecs.ipix.elems) = 1
    /\ Len(iter) = 1
    /\ ~vecs.fully_covered.elems[1]

\* C10: the capacity reserved before the loop is the number of elements the
\* loop appends: during the fill no vector is longer than it or is
\* reallocated, and when the loop ends each holds exactly that many.
C10_ExactPresize ==
    (pc \in {"fill", "returned"} /\ op \in CoverOps) =>
        \A name \in {"ipix", "depth", "fully_covered"} :
            /\ Len(vecs[name].elems) <= len
            /\ vecs[name].cap = len
            /\ vecs[name].reallocs = 0
            /\ iter = <<>> => Len(vecs[name].elems) = len

\* The flat fill has filled a capacity larger than the number of BMOC entries.
C10_Witness ==
    /\ pc = "fill"
    /\ flat
    /\ iter = <<>>
    /\ len > Len(bmoc.entries)
    /\ Len(bmoc.entries) = 2
    /\ Len(vecs.ipix.elems) = len

====
